---- MODULE Spec2Model ----
(***************************************************************************)
(* Model of graphql-dog's Instrument.js: the request wrapping (preRequest,  *)
(* postRequest, newContext), the resolver wrapping (decorateField /         *)
(* decoratedResolver / finishRun) and the schema wrapping (instrumentSchema *)
(* with its per-query hook and the default resolver), running on a          *)
(* JavaScript event loop: one synchronous call stack, a FIFO microtask      *)
(* queue of promise reactions, a setImmediate queue, and application code   *)
(* that creates and settles promises; and of the module that holds the      *)
(* default agent.                                                           *)
(***************************************************************************)
EXTENDS Integers, Sequences, FiniteSets, TLC

\* ---- bounds of the model ----
MaxInv == 1      \* resolver invocations in Spec (every result shape)
MaxProm == 3     \* promises created by resolvers
MaxCalls == 2    \* resolver invocations in CallsSpec and SchemaSpec
MaxLayers == 3   \* wrapper layers on a field (only a faulty instrumentSchema exceeds 1)

MaxEvents == 3   \* logged calls of the request hooks, of the root hook and of the default agent

MaxCtx == 2      \* RequestContexts created in HostSpec (preRequest may run again on a request)

Reqs == {"r1", "r2"}
Fields == {"a", "b"}
Errs == {"e1"}
Agents == {"ag1", "ag2"}
\* the options an application may give configureAgent, and those of an agent
\* built without any: new Agent()
Options == {"o1", "o2"}
NoOptions == "none"
\* the functions of the default-agent module that build the agent when needed
DefaultFns == {"instrumentSchema", "middleware", "koaMiddleware",
               "instrumentHapiServer", "context"}
\* context.agent before newContext has set it
NoAgent == "none"

\* endOffset of a resolverReport that finishRun has not written yet, and
\* durationHrTime of a RequestContext that postRequest has not written yet
UNSET == -1
\* the ctx argument of a resolver: a RequestContext id (ctx.datadogContext),
\* NoDD (a ctx object without datadogContext) or NoCtx (ctx undefined)
NoDD == 0
NoCtx == -1
\* a ctx whose datadogContext is truthy but is no RequestContext (it has no
\* resolverCalls array): not the return value of newContext
BadDD == -2

VARIABLES
  clock,       \* process.hrtime(): strictly increasing with every reading
  reqCtx,      \* req._datadogContext per request: a context id, or 0
  contexts,    \* heap of RequestContexts: [req, startHrTime, resolverCalls, ...]
  reports,     \* heap of resolverReport objects, in creation order
  promises,    \* heap of promises: [kind, state, val, remaining]
  reactions,   \* reactions registered on pending promises, in registration order
  jobs,        \* the microtask queue
  arrays,      \* heap of arrays returned by resolvers
  invs,        \* log of resolver invocations as the caller and fn observe them
  stack,       \* call stack: invocations whose fn is running, innermost last
  schema,      \* the schema: _opticsInstrumented, fields' resolve, root hooks
  immediates,  \* the setImmediate queue: callbacks waiting for a later turn
  hostLog,     \* log of the calls of the hooks and of what they handed on
  defaultAgent,\* the module's defaultAgent: an agent id, or 0 (null)
  agents       \* heap of Agent objects, by the options they were built with

\* the state of the request hooks and of the default agent
hostVars == <<immediates, hostLog, defaultAgent, agents>>

vars == <<clock, reqCtx, contexts, reports, promises, reactions, jobs, arrays,
          invs, stack, schema, immediates, hostLog, defaultAgent, agents>>

\* ---- JavaScript values ----
V(tag, id) == [tag |-> tag, id |-> id]
Null == V("null", 0)
Undefined == V("undefined", 0)
Prim == V("val", 0)
PromiseV(p) == V("promise", p)
ArrayV(a) == V("array", a)
ErrV(e) == V("error", e)
\* an object whose then is a function that throws when it is called
BadThenable == V("badthen", 0)
\* a property that is a function, and what it returns when it is called
MethodV == V("function", 0)
MethodResult == V("val", 1)

\* the parent values a resolver may be given: undefined, null, a number, and
\* objects and functions with any properties under the names of the fields
PropValues == {Undefined, Prim, MethodV}
Sources ==
  {[type |-> t, props |-> [f \in Fields |-> Undefined]] :
     t \in {"undefined", "null", "number"}}
  \cup {[type |-> t, props |-> ps] :
          t \in {"object", "function"}, ps \in [Fields -> PropValues]}

\* the error of a property read on undefined or null
TypeError == ErrV("TypeError")

Last(s) == s[Len(s)]
Range(s) == {s[i] : i \in 1..Len(s)}

\* ---- promises (ECMAScript semantics) ----
\* The part of the state that the wrapper's bookkeeping and promise jobs
\* change, threaded through the operators below as one record.
Mem == [clock |-> clock, contexts |-> contexts, reports |-> reports,
        promises |-> promises, reactions |-> reactions, jobs |-> jobs]

\* new Promise / a derived promise: appended to the heap, id = its index
NewPromise(m, kind, remaining) ==
  [m EXCEPT !.promises = Append(@, [kind |-> kind, state |-> "pending",
                                    val |-> Undefined, remaining |-> remaining])]

\* PerformPromiseThen: on a pending promise the reaction waits, on a settled
\* one its job is queued at once
Then(m, src, kind, rec, target) ==
  LET r == [src |-> src, kind |-> kind, rec |-> rec, target |-> target]
  IN IF m.promises[src].state = "pending"
     THEN [m EXCEPT !.reactions = Append(@, r)]
     ELSE [m EXCEPT !.jobs = Append(@, r)]

\* FulfillPromise / RejectPromise: a promise settles at most once; its
\* reactions are queued in registration order
SettlePromise(m, p, state, val) ==
  IF m.promises[p].state # "pending" THEN m
  ELSE [m EXCEPT !.promises[p].state = state,
                 !.promises[p].val = val,
                 !.jobs = @ \o SelectSeq(m.reactions, LAMBDA r : r.src = p),
                 !.reactions = SelectSeq(@, LAMBDA r : r.src # p)]


\* ---- request wrapping ----
\* preRequest: a new RequestContext with the start time and no resolver calls;
\* durationHrTime (UNSET) and agent (NoAgent) are written later, by postRequest and
\* newContext
NewRequestContext(req, now) ==
  [req |-> req, startHrTime |-> now, resolverCalls |-> <<>>,
   durationHrTime |-> UNSET, agent |-> NoAgent]

\* ---- resolver wrapping: decorateField(fn, fieldInfo) ----
\* a faulty variant of datadogContextOf: without a context on ctx, fall back to the
\* context of the latest request
datadogContextOfLatest(ctxArg) == IF ctxArg > 0 THEN ctxArg ELSE Len(contexts)

\* const datadogContext = ctx && ctx.datadogContext: the RequestContext id the
\* ctx argument carries, 0 (falsy) when ctx is absent or carries none
datadogContextOf(ctxArg) == IF ctxArg > 0 THEN ctxArg ELSE 0

\* process.hrtime(datadogContext.startHrTime): the reading now, relative to
\* the context's start
hrtime(m, c) == m.clock - m.contexts[c].startHrTime

\* a faulty variant of pushReport: unshift instead of push
pushReportFront(calls, r) == <<r>> \o calls

\* datadogContext.resolverCalls.push(resolverReport)
pushReport(calls, r) == Append(calls, r)

\* the resolverReport object with startOffset, and its push onto resolverCalls;
\* the new report's id is its index in the heap of reports
newResolverReport(m, c, field, args) ==
  LET r == Len(m.reports) + 1
      report == [startOffset |-> hrtime(m, c), fieldInfo |-> field,
                 resolverInfo |-> args.info, resolverContext |-> args.ctx,
                 endOffset |-> UNSET, error |-> FALSE,
                 resultNull |-> FALSE, resultUndefined |-> FALSE]
  IN [m EXCEPT !.clock = @ + 1,
               !.reports = Append(@, report),
               !.contexts[c].resolverCalls = pushReport(@, r)]

\* a faulty variant of finishRun: a completion that comes after postRequest
\* is dropped
finishRunUnlessEnded(m, r) ==
  LET c == datadogContextOf(m.reports[r].resolverContext)
  IN IF m.contexts[c].durationHrTime # UNSET THEN m
     ELSE [m EXCEPT !.reports[r].endOffset = hrtime(m, c),
                    !.clock = @ + 1]

\* a faulty variant of finishRun: the report is looked up as the latest one
\* made, not as the one of this invocation
finishRunLatest(m, r) ==
  LET c == datadogContextOf(m.reports[r].resolverContext)
  IN [m EXCEPT !.reports[Len(m.reports)].endOffset = hrtime(m, c),
               !.clock = @ + 1]

\* finishRun: note the end time on the report
finishRun(m, r) ==
  LET c == datadogContextOf(m.reports[r].resolverContext)
  IN [m EXCEPT !.reports[r].endOffset = hrtime(m, c),
               !.clock = @ + 1]

\* the argument list fn is called with: fn(p, a, ctx, resolverInfo)
callFn(args) == <<args>>

\* what the caller of a function sees: a returned value or a thrown error
Returned(v) == [kind |-> "return", val |-> v]
Thrown(e) == [kind |-> "throw", val |-> e]
Running == [kind |-> "running", val |-> Undefined]

\* a faulty variant of resolverThrew: the error is noted and swallowed
resolverThrewSwallowed(m, r, e) ==
  [m |-> finishRun([m EXCEPT !.reports[r].error = TRUE], r),
   out |-> Returned(Undefined)]

\* catch (e) of the call of fn: note the error, finish, re-throw
resolverThrew(m, r, e) ==
  [m |-> finishRun([m EXCEPT !.reports[r].error = TRUE], r),
   out |-> Thrown(e)]

\* result.then(finishRun).catch(() => { error = true; finishRun() }): two
\* derived promises, the second chained on the first
chainFinish(m, r, src) ==
  LET d1 == Len(m.promises) + 1
      d2 == d1 + 1
      m1 == Then(NewPromise(m, "derived", 0), src, "then", r, d1)
  IN Then(NewPromise(m1, "derived", 0), d1, "catch", r, d2)

\* a faulty variant of resultIsPromise: the chained promise is returned instead of result
resultIsPromiseChained(m, r, result) ==
  [m |-> chainFinish(m, r, result.id),
   out |-> Returned(PromiseV(Len(m.promises) + 2))]

\* a faulty variant of resultIsPromise: no early exit, the default finishRun() runs too
resultIsPromiseFallthrough(m, r, result) ==
  [m |-> finishRun(chainFinish(m, r, result.id), r), out |-> Returned(result)]

\* the single-Promise branch: chain on the result and return the result
resultIsPromise(m, r, result) ==
  [m |-> chainFinish(m, r, result.id), out |-> Returned(result)]

\* the Promises collected from an array: the truthy elements with a then
collectPromises(elems) == SelectSeq(elems, LAMBDA v : v.tag = "promise")

\* Promise.all(promises): a new promise, with one reaction per element
RECURSIVE allReactions(_, _, _, _)
allReactions(m, ps, i, all) ==
  IF i > Len(ps) THEN m
  ELSE allReactions(Then(m, ps[i].id, "all", 0, all), ps, i + 1, all)

PromiseAll(m, ps) ==
  allReactions(NewPromise(m, "all", Len(ps)), ps, 1, Len(m.promises) + 1)

\* a faulty variant of resultIsArray: a chain on each Promise instead of on Promise.all
RECURSIVE chainEach(_, _, _, _)
chainEach(m, r, ps, i) ==
  IF i > Len(ps) THEN m ELSE chainEach(chainFinish(m, r, ps[i].id), r, ps, i + 1)

resultIsArrayEach(m, r, result, elems) ==
  LET ps == collectPromises(elems)
  IN IF Len(ps) > 0
     THEN [m |-> chainEach(m, r, ps, 1), out |-> Returned(result)]
     ELSE [m |-> finishRun(m, r), out |-> Returned(result)]

\* the array branch: with Promises in it chain on Promise.all of them and
\* return the array, without any finish at once
resultIsArray(m, r, result, elems) ==
  LET ps == collectPromises(elems)
  IN IF Len(ps) > 0
     THEN [m |-> chainFinish(PromiseAll(m, ps), r, Len(m.promises) + 1),
           out |-> Returned(result)]
     ELSE [m |-> finishRun(m, r), out |-> Returned(result)]

\* result === null / typeof result === 'undefined' / primitive: flag, finish
resultIsNull(m, r, result) ==
  [m |-> finishRun([m EXCEPT !.reports[r].resultNull = TRUE], r),
   out |-> Returned(result)]

\* a faulty variant of resultIsUndefined: result == null is true of undefined too
resultIsUndefinedLoose(m, r, result) ==
  [m |-> finishRun([m EXCEPT !.reports[r].resultNull = TRUE,
                             !.reports[r].resultUndefined = TRUE], r),
   out |-> Returned(result)]

resultIsUndefined(m, r, result) ==
  [m |-> finishRun([m EXCEPT !.reports[r].resultUndefined = TRUE], r),
   out |-> Returned(result)]

resultIsOther(m, r, result) ==
  [m |-> finishRun(m, r), out |-> Returned(result)]

\* typeof result.then === 'function' and result.then(finishRun) throws: the
\* safety belt catches and returns result, with no finish
resultThenThrows(m, r, result) == [m |-> m, out |-> Returned(result)]

\* the processing of fn's result by one wrapper
processResult(m, r, result, arrs) ==
  CASE result.tag = "null" -> resultIsNull(m, r, result)
    [] result.tag = "undefined" -> resultIsUndefined(m, r, result)
    [] result.tag = "promise" -> resultIsPromise(m, r, result)
    [] result.tag = "badthen" -> resultThenThrows(m, r, result)
    [] result.tag = "array" -> resultIsArray(m, r, result, arrs[result.id])
    [] OTHER -> resultIsOther(m, r, result)

\* one wrapper, from the return or throw of its fn to its own return or throw
afterFn(m, r, out, arrs) ==
  IF out.kind = "throw" THEN resolverThrew(m, r, out.val)
  ELSE processResult(m, r, out.val, arrs)

\* the wrappers around one fn unwinding, innermost (last report) first; each
\* hands its own outcome to the wrapper around it
RECURSIVE unwind(_, _, _, _)
unwind(m, recs, out, arrs) ==
  IF recs = <<>> THEN [m |-> m, out |-> out]
  ELSE LET inner == afterFn(m, Last(recs), out, arrs)
       IN unwind(inner.m, SubSeq(recs, 1, Len(recs) - 1), inner.out, arrs)

\* the wrappers around one fn being entered, outermost first: each makes its
\* report before it calls the next
RECURSIVE enter(_, _, _, _, _)
enter(m, layers, c, field, args) ==
  IF layers = 0 \/ c = 0 THEN m
  ELSE enter(newResolverReport(m, c, field, args), layers - 1, c, field, args)

\* the outermost wrapper entered with a ctx.datadogContext that is truthy
\* but has no resolverCalls: process.hrtime(undefined) reads the clock, then
\* datadogContext.resolverCalls.push throws a TypeError, outside any try and
\* before fn is called
enterMalformed(m) == [m |-> [m EXCEPT !.clock = @ + 1], out |-> Thrown(TypeError)]

\* the calls that reach fn through the wrappers
RECURSIVE callsThrough(_, _)
callsThrough(layers, args) ==
  IF layers = 0 THEN <<args>>
  ELSE LET cs == callFn(args)
           F[i \in 0..Len(cs)] ==
             IF i = 0 THEN <<>> ELSE F[i - 1] \o callsThrough(layers - 1, cs[i])
       IN F[Len(cs)]


\* a faulty variant of catchHandler: the rejection is not noted
catchHandlerNoError(m, r) == finishRun(m, r)

\* the rejection handler of the chain: () => { error = true; finishRun() }
catchHandler(m, r) == finishRun([m EXCEPT !.reports[r].error = TRUE], r)

\* one promise reaction job, run from the microtask queue
runJob(m, j) ==
  LET src == m.promises[j.src]
  IN CASE j.kind = "then" ->
            IF src.state = "fulfilled"
            THEN SettlePromise(finishRun(m, j.rec), j.target, "fulfilled", Undefined)
            ELSE SettlePromise(m, j.target, "rejected", src.val)
       [] j.kind = "catch" ->
            IF src.state = "rejected"
            THEN SettlePromise(catchHandler(m, j.rec), j.target, "fulfilled", Undefined)
            ELSE SettlePromise(m, j.target, "fulfilled", src.val)
       [] OTHER ->  \* an element of Promise.all
            IF src.state = "rejected"
            THEN SettlePromise(m, j.target, "rejected", src.val)
            ELSE LET left == m.promises[j.target].remaining - 1
                     m1 == [m EXCEPT !.promises[j.target].remaining = left]
                 IN IF left = 0
                    THEN SettlePromise(m1, j.target, "fulfilled", Prim)
                    ELSE m1

\* ---- schema wrapping ----
\* forEachField callback: default resolver where there is none, then decorate
instrumentField(field) ==
  [resolve |-> TRUE,
   isDefault |-> field.isDefault \/ ~field.resolve,
   layers |-> field.layers + 1]

\* a faulty variant of instrumentSchema: the _opticsInstrumented marker is not checked
instrumentSchemaAgain(s) ==
  [instrumented |-> TRUE,
   fields |-> [f \in Fields |-> instrumentField(s.fields[f])],
   rootHooks |-> s.rootHooks + 1]

\* instrumentSchema(schema)
instrumentSchema(s) ==
  IF s.instrumented THEN s
  ELSE [instrumented |-> TRUE,
        fields |-> [f \in Fields |-> instrumentField(s.fields[f])],
        rootHooks |-> s.rootHooks + 1]

\* the per-query hook given to addSchemaLevelResolveFunction,
\* (root, args, ctx, info) => ...: ctx.datadogContext is read without a test
\* of ctx, reportRequestStart is called when it is truthy, root is returned
schemaLevelResolve(root, ctxArg, info) ==
  IF ctxArg = NoCtx
  THEN [out |-> Thrown(TypeError), started |-> <<>>]
  ELSE [out |-> Returned(root),
        started |-> IF ctxArg > 0
                    THEN <<[datadogContext |-> ctxArg, info |-> info, ctx |-> ctxArg]>>
                    ELSE <<>>]

\* ---- the request hooks: preRequest, postRequest, newContext ----
\* The part of the state that the request hooks change, threaded through the
\* operators below as one record.
Host == [clock |-> clock, contexts |-> contexts, reqCtx |-> reqCtx,
         immediates |-> immediates, hostLog |-> hostLog]

\* a faulty variant of preRequest: the new context takes over the resolver
\* calls of the context it replaces
preRequestMerging(h, r) ==
  LET old == h.reqCtx[r]
      fresh == NewRequestContext(r, h.clock)
  IN [h EXCEPT !.contexts = Append(@, IF old = 0 THEN fresh
                                      ELSE [fresh EXCEPT !.resolverCalls =
                                                           h.contexts[old].resolverCalls]),
               !.reqCtx[r] = Len(h.contexts) + 1,
               !.clock = @ + 1]

\* preRequest(req): a new RequestContext, put on req._datadogContext whatever
\* was there
preRequest(h, r) ==
  [h EXCEPT !.contexts = Append(@, NewRequestContext(r, h.clock)),
            !.reqCtx[r] = Len(h.contexts) + 1,
            !.clock = @ + 1]

\* the call reportRequestEnd(req): the request is handed to Report.js; the
\* call is logged with the RequestContext req carries at that moment, and
\* with the moment
reportRequestEnd(h, r) ==
  [h EXCEPT !.hostLog = Append(@, [op |-> "reportRequestEnd", req |-> r,
                                   ctx |-> h.reqCtx[r], at |-> h.clock])]

\* setImmediate(() => { reportRequestEnd(req); })
setImmediate(h, r) == [h EXCEPT !.immediates = Append(@, r)]

\* a faulty variant of postRequest: reportRequestEnd is called at once
postRequestInline(h, r) ==
  LET c == h.reqCtx[r]
  IN IF c = 0 THEN h
     ELSE reportRequestEnd([h EXCEPT !.contexts[c].durationHrTime = hrtime(h, c),
                                     !.clock = @ + 1], r)

\* a faulty variant of postRequest: without a context it runs preRequest again
postRequestRerun(h, r) ==
  LET c == h.reqCtx[r]
  IN IF c = 0 THEN preRequest(h, r)
     ELSE setImmediate([h EXCEPT !.contexts[c].durationHrTime = hrtime(h, c),
                                 !.clock = @ + 1], r)

\* postRequest(req): with a context on req, the duration is noted and the
\* handoff is put on the setImmediate queue; without one, nothing is done
postRequest(h, r) ==
  LET c == h.reqCtx[r]
  IN IF c = 0 THEN h
     ELSE setImmediate([h EXCEPT !.contexts[c].durationHrTime = hrtime(h, c),
                                 !.clock = @ + 1], r)

\* a faulty variant of newContext: preRequest runs whether or not req has a
\* context
newContextFresh(h, r, agent) ==
  LET h1 == preRequest(h, r)
      c == h1.reqCtx[r]
  IN [h |-> [h1 EXCEPT !.contexts[c].agent = agent], ret |-> c,
      warned |-> h.reqCtx[r] = 0]

\* newContext(req, agent): the context of req, made by preRequest (after a
\* agent.debugFn warning) when req has none, with context.agent set; ret is
\* the context returned
newContext(h, r, agent) ==
  LET h1 == IF h.reqCtx[r] = 0 THEN preRequest(h, r) ELSE h
      c == h1.reqCtx[r]
  IN [h |-> [h1 EXCEPT !.contexts[c].agent = agent], ret |-> c,
      warned |-> h.reqCtx[r] = 0]

\* ---- the default agent ----
\* The module state of the default agent, threaded through the operators
\* below as one record.
Default == [defaultAgent |-> defaultAgent, agents |-> agents]

\* new Agent(options): appended to the heap, id = its index
newAgent(d, options) ==
  [defaultAgent |-> Len(d.agents) + 1, agents |-> Append(d.agents, options)]

ConfigError == ErrV("GraphQLDog Agent configuration already set")

\* a faulty variant of configureAgent: an existing agent is replaced
configureAgentAgain(d, options) ==
  [d |-> newAgent(d, options), out |-> Returned(Undefined)]

\* configureAgent(options): throws when there is a default agent, builds it
\* from the options otherwise
configureAgent(d, options) ==
  IF d.defaultAgent # 0
  THEN [d |-> d, out |-> Thrown(ConfigError)]
  ELSE [d |-> newAgent(d, options), out |-> Returned(Undefined)]

\* if (!defaultAgent) { defaultAgent = new Agent(); }
ensureDefaultAgent(d) ==
  IF d.defaultAgent = 0 THEN newAgent(d, NoOptions) ELSE d

\* ---- the default resolver ----
\* typeof source: 'object' for null as for objects
typeof(source) == IF source.type = "null" THEN "object" ELSE source.type

\* defaultResolveFn(source, args, context, { fieldName }): out is what it
\* returns or throws, calls the argument lists the property was called with
defaultResolveFn(source, args, context, fieldName) ==
  IF typeof(source) = "object" \/ typeof(source) = "function"
  THEN IF source.type = "null"
       THEN [out |-> Thrown(TypeError), calls |-> <<>>]
       ELSE LET property == source.props[fieldName]
            IN IF property = MethodV
               THEN [out |-> Returned(MethodResult),
                     calls |-> <<[args |-> args, context |-> context]>>]
               ELSE [out |-> Returned(property), calls |-> <<>>]
  ELSE [out |-> Returned(Undefined), calls |-> <<>>]

\* ---- the state machine ----
AppPromises == {p \in 1..Len(promises) : promises[p].kind = "app"}

\* the arrays a resolver may build: an optional first element that is no
\* promise (null, or a concrete value), then n promises the resolver has just
\* created, which take the next ids of the heap
Leads == {"none", "null", "val"}

leadOf(lead) ==
  CASE lead = "null" -> <<Null>>
    [] lead = "val" -> <<Prim>>
    [] OTHER -> <<>>

elementsOf(lead, n, next) == leadOf(lead) \o [k \in 1..n |-> PromiseV(next + k - 1)]

RECURSIVE newPromises(_, _)
newPromises(m, n) ==
  IF n = 0 THEN m ELSE newPromises(NewPromise(m, "app", 0), n - 1)

CtxArgs == {NoCtx, NoDD} \cup (1..Len(contexts))

\* a schema as built by the application: field a with a resolver of its
\* own, field b without
BareSchema ==
  [instrumented |-> FALSE,
   fields |-> [f \in Fields |->
                 [resolve |-> (f = "a"), isDefault |-> FALSE, layers |-> 0]],
   rootHooks |-> 0]

InitWith(s) ==
  /\ clock = 0
  /\ reqCtx = [r \in Reqs |-> 0]
  /\ contexts = <<>>
  /\ reports = <<>>
  /\ promises = <<>>
  /\ reactions = <<>>
  /\ jobs = <<>>
  /\ arrays = <<>>
  /\ invs = <<>>
  /\ stack = <<>>
  /\ schema = s
  /\ immediates = <<>>
  /\ hostLog = <<>>
  /\ defaultAgent = 0
  /\ agents = <<>>

\* the server is set up: instrumentSchema has run on the schema
Init == InitWith(instrumentSchema(BareSchema))

\* the schema is built and not yet instrumented
SchemaInit == InitWith(BareSchema)

SetMem(m) ==
  /\ clock' = m.clock
  /\ contexts' = m.contexts
  /\ reports' = m.reports
  /\ promises' = m.promises
  /\ reactions' = m.reactions
  /\ jobs' = m.jobs

\* the middleware meets a new request: preRequest(req)
PreRequest(r) ==
  /\ reqCtx[r] = 0
  /\ contexts' = Append(contexts, NewRequestContext(r, clock))
  /\ reqCtx' = [reqCtx EXCEPT ![r] = Len(contexts) + 1]
  /\ clock' = clock + 1
  /\ UNCHANGED <<reports, promises, reactions, jobs, arrays, invs, stack, schema>>
  /\ UNCHANGED hostVars

\* instrumentSchema(schema), at any time and any number of times
InstrumentSchema ==
  /\ \A f \in Fields : schema.fields[f].layers < MaxLayers
  /\ schema' = instrumentSchema(schema)
  /\ UNCHANGED <<clock, reqCtx, contexts, reports, promises, reactions, jobs,
                 arrays, invs, stack>>
  /\ UNCHANGED hostVars

\* field.resolve(p, a, ctx, info) is called, by the engine or from inside
\* another resolver: the wrappers run up to the call of fn
Invoke(f, ctxArg, max) ==
  /\ Len(invs) < max
  /\ schema.fields[f].resolve
  /\ LET i == Len(invs) + 1
         args == [info |-> i, ctx |-> ctxArg]
         layers == schema.fields[f].layers
         m == enter(Mem, layers, datadogContextOf(ctxArg), f, args)
     IN /\ SetMem(m)
        /\ invs' = Append(invs, [field |-> f, args |-> args,
                                 fnCalls |-> callsThrough(layers, args),
                                 recs |-> [k \in 1..(Len(m.reports) - Len(reports))
                                             |-> Len(reports) + k],
                                 fnOut |-> Running, out |-> Running])
        /\ stack' = Append(stack, i)
  /\ UNCHANGED <<reqCtx, arrays, schema>>
  /\ UNCHANGED hostVars

\* the innermost running fn returns or throws: its wrappers unwind. m0 is the
\* memory as fn leaves it (with the promises it created), arrs the arrays
Unwind(m0, fnOut, arrs) ==
  /\ stack # <<>>
  /\ LET i == Last(stack)
         u == unwind(m0, invs[i].recs, fnOut, arrs)
     IN /\ SetMem(u.m)
        /\ invs' = [invs EXCEPT ![i].fnOut = fnOut, ![i].out = u.out]
        /\ stack' = SubSeq(stack, 1, Len(stack) - 1)
  /\ arrays' = arrs
  /\ UNCHANGED <<reqCtx, schema>>

Finish(m0, fnOut, arrs) ==
  /\ Unwind(m0, fnOut, arrs)
  /\ UNCHANGED hostVars

FnReturnsValue == \E v \in {Null, Undefined, Prim} : Finish(Mem, Returned(v), arrays)

\* fn returns a promise it created: pending, or settled already
\* (Promise.resolve(x), Promise.reject(e))
FnReturnsPromise ==
  /\ Cardinality(AppPromises) < MaxProm
  /\ \E st \in {"pending", "fulfilled", "rejected"}, e \in Errs :
       LET p == Len(promises) + 1
           m1 == NewPromise(Mem, "app", 0)
           m2 == IF st = "pending" THEN m1
                 ELSE SettlePromise(m1, p, st, IF st = "fulfilled" THEN Prim ELSE ErrV(e))
       IN Finish(m2, Returned(PromiseV(p)), arrays)

\* fn returns an array it built, with the promises it created for it
FnReturnsArray ==
  \E lead \in Leads, n \in 0..(MaxProm - Cardinality(AppPromises)) :
    Finish(newPromises(Mem, n),
           Returned(ArrayV(Len(arrays) + 1)),
           Append(arrays, elementsOf(lead, n, Len(promises) + 1)))

FnThrows == \E e \in Errs : Finish(Mem, Thrown(ErrV(e)), arrays)

\* application code fulfils or rejects one of its pending promises
SettleApp(p, state, val) ==
  /\ promises[p].state = "pending"
  /\ SetMem(SettlePromise(Mem, p, state, val))
  /\ UNCHANGED <<reqCtx, arrays, invs, stack, schema>>
  /\ UNCHANGED hostVars

Fulfil == \E p \in AppPromises : SettleApp(p, "fulfilled", Prim)

Reject == \E p \in AppPromises, e \in Errs : SettleApp(p, "rejected", ErrV(e))

\* the event loop runs the next microtask once the call stack is empty
RunMicrotask ==
  /\ stack = <<>>
  /\ jobs # <<>>
  /\ SetMem(runJob([Mem EXCEPT !.jobs = Tail(jobs)], Head(jobs)))
  /\ UNCHANGED <<reqCtx, arrays, invs, stack, schema>>
  /\ UNCHANGED hostVars

\* the engine starts an operation on the instrumented schema: the per-query
\* hook runs with the root value and the ctx the server passed
RootHook(root, ctxArg) ==
  /\ Len(hostLog) < MaxEvents
  /\ schema.rootHooks > 0
  /\ LET h == schemaLevelResolve(root, ctxArg, Len(hostLog) + 1)
     IN hostLog' = Append(hostLog, [op |-> "rootHook", root |-> root, ctx |-> ctxArg,
                                    out |-> h.out, started |-> h.started])
  /\ UNCHANGED <<clock, reqCtx, contexts, reports, promises, reactions, jobs,
                 arrays, invs, stack, schema, immediates, defaultAgent, agents>>

SetHost(h) ==
  /\ clock' = h.clock
  /\ contexts' = h.contexts
  /\ reqCtx' = h.reqCtx
  /\ immediates' = h.immediates
  /\ hostLog' = h.hostLog

\* what the request hooks leave alone
Resolving == <<reports, promises, reactions, jobs, arrays, invs, stack, schema,
               defaultAgent, agents>>

\* the middleware meets a request, for the first time or again: preRequest(req)
PreRequestAny(r) ==
  /\ Len(contexts) < MaxCtx
  /\ SetHost(preRequest(Host, r))
  /\ UNCHANGED Resolving

\* the response of a request has finished: postRequest(req). The call is
\* logged with the context req had
PostRequest(r) ==
  /\ Len(hostLog) < MaxEvents
  /\ stack = <<>>
  /\ SetHost(postRequest([Host EXCEPT !.hostLog =
                            Append(@, [op |-> "postRequest", req |-> r,
                                       ctx |-> reqCtx[r]])], r))
  /\ UNCHANGED Resolving

\* a later turn of the event loop, with the call stack and the microtask
\* queue empty: the oldest setImmediate callback runs
RunImmediate ==
  /\ stack = <<>>
  /\ jobs = <<>>
  /\ immediates # <<>>
  /\ SetHost(reportRequestEnd([Host EXCEPT !.immediates = Tail(@)], Head(immediates)))
  /\ UNCHANGED Resolving

\* the server builds the graphql context of a request: newContext(req, agent).
\* The call is logged with the context it returned
NewContext(r, agent) ==
  /\ Len(hostLog) < MaxEvents
  /\ LET n == newContext(Host, r, agent)
     IN SetHost([n.h EXCEPT !.hostLog =
                   Append(@, [op |-> "newContext", req |-> r, agent |-> agent,
                              had |-> reqCtx[r], ctx |-> n.ret,
                              warned |-> n.warned])])
  /\ UNCHANGED Resolving

\* what the default-agent module leaves alone
NoDefault == <<clock, reqCtx, contexts, reports, promises, reactions, jobs,
               arrays, invs, stack, schema, immediates>>

\* the application calls configureAgent(options); the call is logged with the
\* agent there was and with its outcome
ConfigureAgent(options) ==
  /\ Len(hostLog) < MaxEvents
  /\ LET c == configureAgent(Default, options)
     IN /\ defaultAgent' = c.d.defaultAgent
        /\ agents' = c.d.agents
        /\ hostLog' = Append(hostLog, [op |-> "configureAgent", options |-> options,
                                       had |-> defaultAgent, out |-> c.out])
  /\ UNCHANGED NoDefault

\* the application calls instrumentSchema, middleware, koaMiddleware,
\* instrumentHapiServer or context of the module: the default agent is built
\* if there is none, and the call is passed to it; it is logged with the
\* agent it was passed to
DefaultCall(fn) ==
  /\ Len(hostLog) < MaxEvents
  /\ LET d == ensureDefaultAgent(Default)
     IN /\ defaultAgent' = d.defaultAgent
        /\ agents' = d.agents
        /\ hostLog' = Append(hostLog, [op |-> fn, had |-> defaultAgent,
                                       agent |-> d.defaultAgent])
  /\ UNCHANGED NoDefault

\* field.resolve(p, a, ctx, info) is called with a ctx whose datadogContext is
\* no RequestContext: the outermost wrapper throws, fn is not called
InvokeMalformed(f, max) ==
  /\ Len(invs) < max
  /\ schema.fields[f].resolve
  /\ schema.fields[f].layers > 0
  /\ LET i == Len(invs) + 1
         e == enterMalformed(Mem)
     IN /\ SetMem(e.m)
        /\ invs' = Append(invs, [field |-> f, args |-> [info |-> i, ctx |-> BadDD],
                                 fnCalls |-> <<>>, recs |-> <<>>,
                                 fnOut |-> Running, out |-> e.out])
  /\ UNCHANGED <<reqCtx, arrays, stack, schema>>
  /\ UNCHANGED hostVars

\* fn returns a concrete value
FnReturnsPrim == Finish(Mem, Returned(Prim), arrays)

\* fn returns an object whose then throws
FnReturnsBadThenable == Finish(Mem, Returned(BadThenable), arrays)

\* the innermost running fn is the default resolver the schema wrapping put
\* on a field: it runs on the parent value it was given, and its wrappers
\* unwind. The call is logged with the parent value and with its outcome
DefaultResolves(source) ==
  /\ stack # <<>>
  /\ schema.fields[invs[Last(stack)].field].isDefault
  /\ LET i == Last(stack)
         d == defaultResolveFn(source, invs[i].args.info, invs[i].args.ctx,
                               invs[i].field)
     IN /\ Unwind(Mem, d.out, arrays)
        /\ hostLog' = Append(hostLog, [op |-> "defaultResolveFn", inv |-> i,
                                       source |-> source, out |-> d.out,
                                       calls |-> d.calls])
  /\ UNCHANGED <<immediates, defaultAgent, agents>>

\* Spec: one request and the resolver of field a, decorated, on the event
\* loop, with every shape of result
Next ==
  \/ PreRequest("r1")
  \/ \E c \in CtxArgs : Invoke("a", c, MaxInv)
  \/ FnReturnsValue
  \/ FnReturnsPromise
  \/ FnReturnsArray
  \/ FnThrows
  \/ Fulfil
  \/ Reject
  \/ RunMicrotask

Spec == Init /\ [][Next]_vars

\* CallsSpec: two requests and several invocations of the decorated resolver,
\* overlapping and nested, each returning a value or one promise, or throwing
CallsNext ==
  \/ \E r \in Reqs : PreRequest(r)
  \/ \E c \in CtxArgs : Invoke("a", c, MaxCalls)
  \/ FnReturnsValue
  \/ FnReturnsPromise
  \/ FnThrows
  \/ Fulfil
  \/ Reject
  \/ RunMicrotask

CallsSpec == Init /\ [][CallsNext]_vars

\* FairSpec: the invocations of CallsSpec within one request, with the
\* fairness of the event loop: a running resolver returns or throws, and the
\* loop runs the next microtask once the stack is empty
FairNext ==
  \/ PreRequest("r1")
  \/ \E c \in CtxArgs : Invoke("a", c, MaxCalls)
  \/ FnReturnsValue
  \/ FnReturnsPromise
  \/ FnThrows
  \/ Fulfil
  \/ Reject
  \/ RunMicrotask

FnEnds == FnReturnsValue \/ FnReturnsPromise \/ FnThrows

FairSpec ==
  Init /\ [][FairNext]_vars /\ WF_vars(FnEnds) /\ WF_vars(RunMicrotask)

\* SchemaSpec: instrumentSchema called at any time, any number of times, on a
\* schema whose fields are being resolved
SchemaNext ==
  \/ InstrumentSchema
  \/ PreRequest("r1")
  \/ \E f \in Fields, c \in CtxArgs : Invoke(f, c, MaxCalls)
  \/ FnReturnsValue
  \/ FnThrows

SchemaSpec == SchemaInit /\ [][SchemaNext]_vars

\* QuerySpec: operations start on a schema that is instrumented at some
\* point, with every kind of ctx and root value
QueryNext ==
  \/ InstrumentSchema
  \/ PreRequest("r1")
  \/ \E root \in {Null, Prim}, c \in CtxArgs : RootHook(root, c)

QuerySpec == SchemaInit /\ [][QueryNext]_vars

\* HostSpec: the hooks around one request, called in any order and any
\* number of times, while the decorated resolver of field a runs with the
\* contexts of the request, the replaced ones included
HostNext ==
  \/ PreRequestAny("r1")
  \/ PostRequest("r1")
  \/ RunImmediate
  \/ \E ag \in Agents : NewContext("r1", ag)
  \/ \E c \in 1..Len(contexts) : Invoke("a", c, MaxInv)
  \/ FnReturnsPrim

HostSpec == Init /\ [][HostNext]_vars

\* HostFairSpec: the hooks around one request, with the fairness of the
\* event loop: it runs the setImmediate callbacks
HostFairNext ==
  \/ PreRequestAny("r1")
  \/ PostRequest("r1")
  \/ RunImmediate
  \/ \E ag \in Agents : NewContext("r1", ag)

HostFairSpec == Init /\ [][HostFairNext]_vars /\ WF_vars(RunImmediate)

\* AgentSpec: the functions of the default-agent module, called in any order
AgentNext ==
  \/ \E o \in Options : ConfigureAgent(o)
  \/ \E fn \in DefaultFns : DefaultCall(fn)

AgentSpec == Init /\ [][AgentNext]_vars

\* FaultSpec: the decorated resolver of field a where the wrapper's own
\* bookkeeping fails: on a ctx whose datadogContext is no RequestContext, and
\* on a result whose then throws
FaultNext ==
  \/ PreRequest("r1")
  \/ \E c \in CtxArgs : Invoke("a", c, MaxCalls)
  \/ InvokeMalformed("a", MaxCalls)
  \/ FnReturnsValue
  \/ FnReturnsBadThenable
  \/ FnThrows

FaultSpec == Init /\ [][FaultNext]_vars

\* EndSpec: one request from preRequest to the handoff, while the decorated
\* resolver of field a returns promises that settle at any time, with the
\* fairness of the event loop: a running resolver returns, and the loop runs
\* the microtasks and the setImmediate callbacks
EndNext ==
  \/ PreRequest("r1")
  \/ PostRequest("r1")
  \/ RunImmediate
  \/ \E c \in CtxArgs : Invoke("a", c, MaxInv)
  \/ FnReturnsPromise
  \/ Fulfil
  \/ Reject
  \/ RunMicrotask

EndSpec ==
  /\ Init /\ [][EndNext]_vars
  /\ WF_vars(FnReturnsPromise) /\ WF_vars(RunMicrotask) /\ WF_vars(RunImmediate)

\* DefaultSpec: the field without a resolver of its own is resolved, on the
\* schema once it is instrumented, with every parent value
DefaultNext ==
  \/ InstrumentSchema
  \/ PreRequest("r1")
  \/ \E c \in CtxArgs : Invoke("b", c, MaxCalls)
  \/ \E source \in Sources : DefaultResolves(source)

DefaultSpec == SchemaInit /\ [][DefaultNext]_vars

\* ---- the claims ----
Invs == 1..Len(invs)
Reports == 1..Len(reports)

\* invocation i went through a wrapper that found a RequestContext
Recorded(i) == invs[i].recs # <<>>
\* the report of invocation i (of its outermost wrapper)
ReportOf(i) == reports[invs[i].recs[1]]
\* fn of invocation i returned a value of this tag
FnReturned(i, tag) == invs[i].fnOut.kind = "return" /\ invs[i].fnOut.val.tag = tag
\* the promises among the elements of the array fn of invocation i returned
PromisesIn(i) == {v.id : v \in Range(collectPromises(arrays[invs[i].fnOut.val.id]))}
Settled(p) == promises[p].state # "pending"
Finished(r) == reports[r].endOffset # UNSET

\* C1: for every report, endOffset is written at most once, and once it is
\* written no field of the report changes again, whatever the order in which
\* the promises of the result settle.
C1_EndOffsetOnce ==
  [][\A r \in Reports : Finished(r) => reports'[r] = reports[r]]_vars

\* C1 witness: an array of several promises was returned, its promises have
\* settled in some order (one of them rejected), every job has run, and the
\* report is finished.
C1_Witness ==
  \E i \in Invs :
    /\ Recorded(i) /\ FnReturned(i, "array")
    /\ Cardinality(PromisesIn(i)) >= 2
    /\ \A p \in PromisesIn(i) : Settled(p)
    /\ \E p \in PromisesIn(i) : promises[p].state = "rejected"
    /\ \E p \in PromisesIn(i) : promises[p].state = "fulfilled"
    /\ jobs = <<>>
    /\ Finished(invs[i].recs[1])

\* C2: the wrapped resolver calls fn exactly once, with the arguments it was
\* called with, and what its caller gets is what fn returned (the same
\* promise, the same array) or the error fn threw, for every shape of result,
\* with or without a RequestContext.
C2_Transparent ==
  \A i \in Invs :
    /\ invs[i].fnCalls = <<invs[i].args>>
    /\ invs[i].out = invs[i].fnOut

\* C2 witness: a recorded invocation whose fn returned a promise, now
\* rejected, has returned to its caller.
C2_Witness ==
  \E i \in Invs :
    /\ Recorded(i) /\ FnReturned(i, "promise")
    /\ invs[i].out.kind = "return"
    /\ promises[invs[i].fnOut.val.id].state = "rejected"
    /\ jobs = <<>>

\* the report of a returned promise while it is pending, and once fulfilled
C3_State ==
  \A i \in Invs :
    (Recorded(i) /\ FnReturned(i, "promise")) =>
      LET p == invs[i].fnOut.val.id
          r == invs[i].recs[1]
      IN /\ ~Settled(p) => (~Finished(r) /\ ~reports[r].error)
         /\ promises[p].state = "fulfilled" => ~reports[r].error

\* endOffset is written only once the promise has settled
C3_Step ==
  \A i \in Invs :
    (Recorded(i) /\ FnReturned(i, "promise")) =>
      LET p == invs[i].fnOut.val.id
          r == invs[i].recs[1]
      IN (~Finished(r) /\ reports'[r].endOffset # UNSET) => Settled(p)

\* C3: when fn returns one promise, the report has no endOffset and no error
\* while the promise is pending (so also right after the wrapper returned),
\* endOffset is written only by a step taken when the promise has already
\* settled, and a fulfilled promise never sets the error flag.
C3_PromiseNotAwaited == []C3_State /\ [][C3_Step]_vars

\* C3 witness: the promise has fulfilled after the wrapper returned, and the
\* report is finished without error.
C3_Witness ==
  \E i \in Invs :
    /\ Recorded(i) /\ FnReturned(i, "promise")
    /\ promises[invs[i].fnOut.val.id].state = "fulfilled"
    /\ Finished(invs[i].recs[1])
    /\ ~ReportOf(i).error

\* fn of invocation i returned one promise, which has rejected
RejectedCase(i) ==
  /\ i \in Invs
  /\ Recorded(i) /\ FnReturned(i, "promise")
  /\ promises[invs[i].fnOut.val.id].state = "rejected"

\* what holds of a rejected promise at every moment: the report is not
\* finished before its error flag is set, and the caller holds fn's promise,
\* rejected with fn's reason
C4_State(i) ==
  RejectedCase(i) =>
    LET p == invs[i].fnOut.val.id
        r == invs[i].recs[1]
        got == invs[i].out.val
    IN /\ Finished(r) => reports[r].error
       /\ got.tag = "promise"
       /\ promises[got.id].state = "rejected"
       /\ promises[got.id].val = promises[p].val

C4_Noted(i) == RejectedCase(i) /\ ReportOf(i).error /\ Finished(invs[i].recs[1])

\* C4: when fn returns one promise and it rejects, the report eventually has
\* error = true and endOffset set, error no later than endOffset, and the
\* promise the caller holds is the one fn returned, rejected with its reason.
C4_RejectionNoted ==
  /\ [](\A i \in 1..MaxCalls : C4_State(i))
  /\ \A i \in 1..MaxCalls : RejectedCase(i) ~> C4_Noted(i)

\* C4 witness: the rejection of the returned promise has been noted.
C4_Witness == \E i \in Invs : C4_Noted(i) /\ jobs = <<>>

\* C5: when fn returns an array with promises in it, endOffset is set only
\* after every one of them has settled, and error is set if one rejected.
C5_AfterAllSettled ==
  \A i \in Invs :
    (Recorded(i) /\ FnReturned(i, "array") /\ PromisesIn(i) # {}) =>
      LET r == invs[i].recs[1]
      IN Finished(r) =>
           /\ \A p \in PromisesIn(i) : Settled(p)
           /\ (\E p \in PromisesIn(i) : promises[p].state = "rejected")
                => reports[r].error

\* fn of invocation i returned at once a value that holds no promise
PlainResult(i) ==
  /\ invs[i].fnOut.kind = "return"
  /\ invs[i].fnOut.val.tag # "promise"
  /\ invs[i].fnOut.val.tag = "array" => PromisesIn(i) = {}

Flags(rep) ==
  (IF rep.error THEN 1 ELSE 0) + (IF rep.resultNull THEN 1 ELSE 0)
    + (IF rep.resultUndefined THEN 1 ELSE 0)

\* C6: when fn returns a value that holds no promise, the report is finished
\* when the wrapper has returned, resultNull is set exactly for null,
\* resultUndefined exactly for undefined, error is not set; and no report
\* ever has more than one of the three flags.
C6_PlainResult ==
  /\ \A i \in Invs :
       (Recorded(i) /\ PlainResult(i)) =>
         /\ Finished(invs[i].recs[1])
         /\ ReportOf(i).resultNull = (invs[i].fnOut.val.tag = "null")
         /\ ReportOf(i).resultUndefined = (invs[i].fnOut.val.tag = "undefined")
         /\ ~ReportOf(i).error
  /\ \A r \in Reports : Flags(reports[r]) <= 1

\* C6 witness: fn returned undefined and the report says so.
C6_Witness ==
  \E i \in Invs :
    /\ Recorded(i) /\ FnReturned(i, "undefined")
    /\ ReportOf(i).resultUndefined /\ Finished(invs[i].recs[1])

\* C7: the report is in resolverCalls of the RequestContext while fn runs;
\* when fn throws, the report gets error and endOffset, neither resultNull
\* nor resultUndefined, and the caller gets the error fn threw.
C7_Throw ==
  \A i \in Invs :
    Recorded(i) =>
      /\ invs[i].recs[1] \in
           Range(contexts[datadogContextOf(invs[i].args.ctx)].resolverCalls)
      /\ invs[i].fnOut.kind = "throw" =>
           /\ ReportOf(i).error /\ Finished(invs[i].recs[1])
           /\ ~ReportOf(i).resultNull /\ ~ReportOf(i).resultUndefined
           /\ invs[i].out = invs[i].fnOut

\* C7 witness: fn threw and the throw reached the caller.
C7_Witness ==
  \E i \in Invs :
    Recorded(i) /\ invs[i].fnOut.kind = "throw" /\ invs[i].out.kind = "throw"

\* invocation i was made with no RequestContext on its ctx argument
NoContext(i) == invs[i].args.ctx \in {NoCtx, NoDD}

C8_State ==
  \A i \in Invs :
    NoContext(i) =>
      /\ invs[i].recs = <<>>
      /\ invs[i].fnCalls = <<invs[i].args>>
      /\ invs[i].out = invs[i].fnOut

\* a step that begins or ends an invocation without RequestContext
C8_Begins == Len(invs') = Len(invs) + 1 /\ invs'[Len(invs')].args.ctx \in {NoCtx, NoDD}
C8_Ends == stack # <<>> /\ stack' = SubSeq(stack, 1, Len(stack) - 1) /\ NoContext(Last(stack))

C8_Step ==
  (C8_Begins \/ C8_Ends) =>
    /\ contexts' = contexts /\ reports' = reports
    /\ reactions' = reactions /\ jobs' = jobs

\* C8: an invocation with no RequestContext reachable from ctx (ctx absent,
\* or without datadogContext) makes no report, changes no RequestContext and
\* no report, attaches nothing to the result, calls fn once with its own
\* arguments and hands fn's value or error to the caller.
C8_NoContext == []C8_State /\ [][C8_Step]_vars

\* C8 witness: with a RequestContext in existence and holding a report, an
\* invocation without context has thrown to its caller.
C8_Witness ==
  \E i, j \in Invs :
    /\ NoContext(i) /\ invs[i].out.kind = "throw"
    /\ Recorded(j)

\* the reports of the invocations made with RequestContext c, in the order
\* the invocations began
RECURSIVE ReportsInOrder(_, _)
ReportsInOrder(c, n) ==
  IF n = 0 THEN <<>>
  ELSE ReportsInOrder(c, n - 1)
         \o (IF invs[n].args.ctx = c THEN invs[n].recs ELSE <<>>)

C9_State ==
  /\ \A c \in 1..Len(contexts) :
       contexts[c].resolverCalls = ReportsInOrder(c, Len(invs))
  /\ \A i \in Invs : invs[i].args.ctx > 0 => Len(invs[i].recs) = 1

C9_Step ==
  Len(invs') = Len(invs) =>
    \A c \in 1..Len(contexts) :
      contexts'[c].resolverCalls = contexts[c].resolverCalls

\* C9: resolverCalls of a RequestContext holds one report per invocation made
\* with it, in the order the invocations began; no step other than an
\* invocation changes it.
C9_CallsInOrder == []C9_State /\ [][C9_Step]_vars

\* C9 witness: two invocations on one RequestContext, the second finished
\* and the first not: completion order differs from the order of calls.
C9_Witness ==
  \E c \in 1..Len(contexts) :
    /\ Len(contexts[c].resolverCalls) = 2
    /\ ~Finished(contexts[c].resolverCalls[1])
    /\ Finished(contexts[c].resolverCalls[2])
    /\ stack = <<>>

C10_State ==
  /\ \A f \in Fields : schema.fields[f].layers <= 1
  /\ schema.rootHooks <= 1
  /\ schema.instrumented =>
       /\ \A f \in Fields : schema.fields[f].resolve /\ schema.fields[f].layers = 1
       /\ schema.rootHooks = 1
  /\ \A i \in Invs : Len(invs[i].recs) <= 1 /\ invs[i].fnCalls = <<invs[i].args>>

C10_Step == schema.instrumented => schema' = schema

\* C10: however often instrumentSchema is called, every field has one layer
\* of the wrapper and the schema one root hook, a field call makes at most
\* one report and calls the original resolver once, and a call on an
\* instrumented schema changes nothing.
C10_Idempotent == []C10_State /\ [][C10_Step]_vars

\* C10 witness: on the instrumented schema the field without a resolver of
\* its own was resolved through its wrapped default resolver, with one report.
C10_Witness ==
  /\ schema.instrumented
  /\ \E i \in Invs :
       /\ invs[i].field = "b" /\ schema.fields["b"].isDefault
       /\ Len(invs[i].recs) = 1 /\ invs[i].out.kind = "return"

Events == 1..Len(hostLog)
\* the logged calls of one hook or function
EventsOf(op) == {k \in Events : hostLog[k].op = op}

\* C11: for any ctx, an absent one included, the per-query hook returns root
\* unchanged and raises no error, and it calls reportRequestStart exactly
\* when ctx carries a RequestContext. (Refuted: with ctx undefined the hook
\* throws a TypeError on ctx.datadogContext.)
C11_RootHookTotal ==
  \A k \in EventsOf("rootHook") :
    /\ hostLog[k].out = Returned(hostLog[k].root)
    /\ (hostLog[k].started # <<>>) <=> (hostLog[k].ctx > 0)

\* the postRequest calls that found a RequestContext, and the handoffs
PostCalls == {k \in EventsOf("postRequest") : hostLog[k].ctx > 0}
Handoffs == EventsOf("reportRequestEnd")
\* the position of event k among the events of S
Rank(k, S) == Cardinality({j \in S : j <= k})

C12_State ==
  /\ Cardinality(Handoffs) + Len(immediates) = Cardinality(PostCalls)
  /\ \A j \in PostCalls : contexts[hostLog[j].ctx].durationHrTime # UNSET
  /\ \A k \in Handoffs :
       \E j \in PostCalls :
         /\ j < k
         /\ Rank(j, PostCalls) = Rank(k, Handoffs)
         /\ hostLog[j].req = hostLog[k].req

C12_Step ==
  Handoffs' # Handoffs =>
    /\ stack = <<>> /\ jobs = <<>>
    /\ PostCalls' = PostCalls
    /\ contexts' = contexts

C12_Live ==
  \A n \in 1..MaxEvents :
    (Cardinality(PostCalls) >= n) ~> (Cardinality(Handoffs) >= n)

\* C12: postRequest on a request with a RequestContext notes the duration
\* and only queues the handoff: reportRequestEnd runs in a later turn, never
\* in the step of postRequest, and it runs exactly once for each such call,
\* in the order of the calls.
C12_HandoffLater == []C12_State /\ [][C12_Step]_vars /\ C12_Live

\* C12 witness: postRequest was called twice on a request with a context, and
\* both handoffs have run.
C12_Witness ==
  /\ Cardinality(PostCalls) = 2
  /\ Cardinality(Handoffs) = 2
  /\ immediates = <<>>

\* the step is a call of postRequest on request r, which carries no
\* RequestContext
PostWithoutContext(r) ==
  /\ Len(hostLog') = Len(hostLog) + 1
  /\ Last(hostLog').op = "postRequest"
  /\ Last(hostLog').req = r
  /\ Last(hostLog').ctx = 0

\* C13 as stated: postRequest on a request without a RequestContext runs
\* preRequest again, so that afterwards the request carries a fresh
\* RequestContext with no resolver calls.
C13_PostRerunsPreRequest ==
  [][\A r \in Reqs :
       PostWithoutContext(r) =>
         /\ reqCtx'[r] # 0
         /\ contexts'[reqCtx'[r]].resolverCalls = <<>>]_vars

\* C13, amended: postRequest on a request without a RequestContext does
\* nothing: the request still carries no context afterwards, no context is
\* created, the clock is not read and no handoff is queued.
C13_PostWithoutContextIdle ==
  [][\A r \in Reqs :
       PostWithoutContext(r) =>
         /\ reqCtx'[r] = 0
         /\ UNCHANGED <<reqCtx, contexts, clock, immediates>>]_vars

\* C13 witness: postRequest has been called on a request without a context,
\* and the request has none, with nothing queued or handed on.
C13_Witness ==
  /\ \E k \in EventsOf("postRequest") :
       hostLog[k].ctx = 0 /\ reqCtx[hostLog[k].req] = 0
  /\ contexts = <<>>
  /\ immediates = <<>>
  /\ Handoffs = {}

\* the step is a call of newContext on request r
NewContextCall(r) ==
  /\ Len(hostLog') = Len(hostLog) + 1
  /\ Last(hostLog').op = "newContext"
  /\ Last(hostLog').req = r

C14_Step ==
  \A r \in Reqs :
    NewContextCall(r) =>
      LET e == Last(hostLog')
      IN /\ e.ctx # 0
         /\ e.ctx = reqCtx'[r]
         /\ contexts'[e.ctx].agent = e.agent
         /\ reqCtx[r] # 0 =>
              /\ e.ctx = reqCtx[r]
              /\ contexts' = [contexts EXCEPT ![e.ctx].agent = e.agent]
              /\ clock' = clock
         /\ reqCtx[r] = 0 =>
              /\ e.ctx = Len(contexts) + 1
              /\ contexts' = Append(contexts,
                                    [NewRequestContext(r, clock) EXCEPT !.agent = e.agent])

C14_State ==
  \A k \in EventsOf("newContext") :
    /\ hostLog[k].had # 0 => hostLog[k].ctx = hostLog[k].had
    /\ \A j \in EventsOf("newContext") :
         (j < k /\ hostLog[j].req = hostLog[k].req /\ hostLog[k].had = hostLog[j].ctx)
           => hostLog[k].ctx = hostLog[j].ctx

\* C14: newContext returns the RequestContext attached to the request, with
\* its agent set to the given agent: the attached one, calls and start time
\* untouched, when there is one, and otherwise a new one made as preRequest
\* makes it; a second call with nothing in between returns the same context.
C14_NewContext == []C14_State /\ [][C14_Step]_vars

\* C14 witness: newContext created the context of a request, a resolver call
\* was recorded in it, and a second newContext with another agent returned the
\* same context, calls kept.
C14_Witness ==
  \E j, k \in EventsOf("newContext") :
    /\ j < k
    /\ hostLog[j].had = 0
    /\ hostLog[k].ctx = hostLog[j].ctx
    /\ hostLog[k].agent # hostLog[j].agent
    /\ contexts[hostLog[k].ctx].agent = hostLog[k].agent
    /\ contexts[hostLog[k].ctx].resolverCalls # <<>>

Contexts == 1..Len(contexts)

C15_State ==
  /\ \A r \in Reqs : reqCtx[r] # 0 => contexts[reqCtx[r]].req = r
  /\ \A c \in Contexts :
       \A rep \in Range(contexts[c].resolverCalls) : reports[rep].resolverContext = c
  /\ \A k \in PostCalls :
       \A c \in Contexts \ {hostLog[k].ctx} :
         Range(contexts[c].resolverCalls)
           \cap Range(contexts[hostLog[k].ctx].resolverCalls) = {}

C15_Step ==
  Len(contexts') # Len(contexts) =>
    LET c == Len(contexts) + 1
    IN /\ Len(contexts') = c
       /\ SubSeq(contexts', 1, Len(contexts)) = contexts
       /\ contexts'[c].resolverCalls = <<>>
       /\ contexts'[c].startHrTime = clock
       /\ reqCtx' = [reqCtx EXCEPT ![contexts'[c].req] = c]

\* C15: a request carries at most one RequestContext, its own; preRequest
\* always attaches a new one with no resolver calls and leaves the replaced
\* one as it is, so the reports pushed through the first context of a request
\* are never among the calls of the context postRequest finalizes later.
C15_OneContext == []C15_State /\ [][C15_Step]_vars

\* C15 witness: a resolver call was recorded in the first context of a
\* request, preRequest ran again, and postRequest and the handoff met the
\* second context, which has no calls.
C15_Witness ==
  \E r \in Reqs, k \in PostCalls, h \in Handoffs :
    /\ hostLog[k].req = r /\ hostLog[h].req = r
    /\ hostLog[k].ctx = 2 /\ hostLog[h].ctx = 2 /\ reqCtx[r] = 2
    /\ contexts[1].req = r
    /\ contexts[1].resolverCalls # <<>>
    /\ contexts[2].resolverCalls = <<>>
    /\ contexts[2].durationHrTime # UNSET

\* the logged calls that were passed to the default agent
Delegated == {k \in Events : hostLog[k].op \in DefaultFns}

C16_State ==
  /\ Len(agents) <= 1
  /\ defaultAgent \in {0, Len(agents)}
  /\ defaultAgent = 0 <=> hostLog = <<>>
  /\ \A k \in Delegated : hostLog[k].agent = defaultAgent /\ hostLog[k].agent # 0
  /\ \A k \in EventsOf("configureAgent") :
       /\ hostLog[k].had = 0 =>
            /\ hostLog[k].out = Returned(Undefined)
            /\ agents[defaultAgent] = hostLog[k].options
       /\ hostLog[k].had # 0 => hostLog[k].out = Thrown(ConfigError)

C16_Step == defaultAgent # 0 => (defaultAgent' = defaultAgent /\ agents' = agents)

\* C16: the default agent is built at most once and never replaced:
\* configureAgent succeeds only while there is none; once there is one, built
\* by configureAgent or by the first call of instrumentSchema, middleware,
\* koaMiddleware, instrumentHapiServer or context, configureAgent throws and
\* leaves it as it is, and every later call is passed to that same agent.
C16_DefaultAgentOnce == []C16_State /\ [][C16_Step]_vars

\* C16 witness: middleware built the default agent, configureAgent then
\* threw, and a later call of context was passed to the agent middleware built.
C16_Witness ==
  /\ Len(hostLog) = 3
  /\ hostLog[1].op = "middleware" /\ hostLog[1].had = 0
  /\ hostLog[2].op = "configureAgent" /\ hostLog[2].out = Thrown(ConfigError)
  /\ hostLog[3].op = "context" /\ hostLog[3].agent = hostLog[1].agent
  /\ agents = <<NoOptions>>

\* C17: a fault of the wrapper's own bookkeeping is never surfaced to the
\* caller: when fn returned a result the caller gets that result, and an
\* error the caller sees is the error fn threw. (Refuted: the report is made
\* and pushed outside any try, so a fault there reaches the caller, and fn is
\* not even called.)
C17_FaultsContained ==
  \A i \in Invs :
    /\ invs[i].fnOut.kind = "return" => invs[i].out = invs[i].fnOut
    /\ invs[i].out.kind = "throw" => invs[i].out = invs[i].fnOut

\* invocation i was recorded in a RequestContext and fn returned a promise
Deferred(i) == i \in Invs /\ Recorded(i) /\ FnReturned(i, "promise")
\* the RequestContext of invocation i has been handed on
HandedOff(i) == \E k \in Handoffs : hostLog[k].ctx = invs[i].args.ctx
\* the report of invocation i is finished, in the calls of its RequestContext
FinishedInContext(i) ==
  /\ Finished(invs[i].recs[1])
  /\ invs[i].recs[1] \in Range(contexts[invs[i].args.ctx].resolverCalls)

C18_State ==
  \A i \in Invs :
    Deferred(i) =>
      LET p == invs[i].fnOut.val.id
          r == invs[i].recs[1]
      IN /\ r \in Range(contexts[invs[i].args.ctx].resolverCalls)
         /\ ~Settled(p) => ~Finished(r)
         /\ (Settled(p) /\ jobs = <<>>) => Finished(r)

C18_Step ==
  (EventsOf("postRequest")' # EventsOf("postRequest") \/ Handoffs' # Handoffs) =>
    UNCHANGED <<reports, promises, reactions, jobs>>

C18_Live ==
  \A i \in 1..MaxInv :
    (Deferred(i) /\ HandedOff(i) /\ Settled(invs[i].fnOut.val.id))
      ~> (Deferred(i) /\ FinishedInContext(i))

\* C18: the end of a request neither waits for nor cancels pending
\* completions: postRequest and the handoff leave reports, promises and
\* reactions as they are, a report whose promise is unsettled has no
\* endOffset, at the handoff as at any time, and once the promise has settled
\* the endOffset is set, on the report in the calls of the RequestContext
\* that was handed on.
C18_EndDoesNotWait == []C18_State /\ [][C18_Step]_vars /\ C18_Live

\* C18 witness: the context of a request was handed on, and the report of a
\* call in it was finished at or after that moment, when its promise settled.
C18_Witness ==
  \E i \in Invs, k \in Handoffs :
    /\ Deferred(i)
    /\ hostLog[k].ctx = invs[i].args.ctx
    /\ FinishedInContext(i)
    /\ ReportOf(i).endOffset + contexts[hostLog[k].ctx].startHrTime >= hostLog[k].at
    /\ contexts[hostLog[k].ctx].durationHrTime < ReportOf(i).endOffset

\* the step is a microtask: a queued reaction runs, no resolver is called or
\* returns, no request begins and the application settles nothing
MicrotaskStep ==
  /\ stack = <<>> /\ jobs # <<>>
  /\ invs' = invs /\ stack' = stack /\ Len(contexts') = Len(contexts)
  /\ \A p \in AppPromises : promises'[p] = promises[p]
  /\ <<jobs, promises>>' # <<jobs, promises>>

\* the RequestContext a step acts for: that of the ctx of the invocation that
\* begins or ends, or of the report whose reaction runs; 0 when there is none
ActingCtx ==
  IF Len(invs') > Len(invs) THEN datadogContextOf(invs'[Len(invs')].args.ctx)
  ELSE IF stack # <<>> /\ Len(stack') < Len(stack)
       THEN datadogContextOf(invs[Last(stack)].args.ctx)
  ELSE IF MicrotaskStep /\ Head(jobs).rec > 0
       THEN datadogContextOf(reports[Head(jobs).rec].resolverContext)
  ELSE 0

C19_State ==
  \A i \in Invs :
    \A r \in Range(invs[i].recs) :
      /\ reports[r].resolverContext = invs[i].args.ctx
      /\ \A c \in Contexts :
           r \in Range(contexts[c].resolverCalls) <=> c = invs[i].args.ctx

C19_Step ==
  \A c \in Contexts :
    c # ActingCtx =>
      /\ contexts'[c] = contexts[c]
      /\ \A r \in Reports :
           reports[r].resolverContext = c => reports'[r] = reports[r]

\* C19: under any interleaving of the resolver calls and settlements of two
\* requests, every report is pushed to, and finished in, the RequestContext
\* carried by the ctx of its own invocation and no other; a step made for
\* one request, a settlement included, changes nothing in the RequestContext
\* of the other nor in its reports.
C19_Isolated == []C19_State /\ [][C19_Step]_vars

\* C19 witness: two requests each have a call that returned a promise; the
\* later call's promise has settled and its report is finished, while the
\* earlier call's report, in the other RequestContext, is still unfinished.
C19_Witness ==
  \E i, j \in Invs :
    /\ i < j
    /\ Deferred(i) /\ Deferred(j)
    /\ invs[i].args.ctx # invs[j].args.ctx
    /\ contexts[invs[i].args.ctx].req # contexts[invs[j].args.ctx].req
    /\ ~Finished(invs[i].recs[1])
    /\ FinishedInContext(j)
    /\ contexts[invs[i].args.ctx].resolverCalls = invs[i].recs
    /\ contexts[invs[j].args.ctx].resolverCalls = invs[j].recs

\* C20: instrumentSchema puts a default resolver, wrapped, on every field
\* without a resolver of its own; for every parent value it returns the
\* parent's property of the field's name, or what that property returns when
\* it is a function, called with (args, context), and for any other parent
\* it returns undefined and raises no error; the wrapper hands this on.
\* (Refuted: for the parent null, typeof is 'object' and the property read
\* throws a TypeError.)
C20_DefaultResolver ==
  /\ schema.instrumented =>
       \A f \in Fields :
         /\ schema.fields[f].resolve
         /\ schema.fields[f].isDefault <=> ~BareSchema.fields[f].resolve
  /\ \A k \in EventsOf("defaultResolveFn") :
       LET e == hostLog[k]
           i == invs[e.inv]
           property == e.source.props[i.field]
       IN /\ i.out = e.out
          /\ IF e.source.type \in {"object", "function"}
             THEN IF property = MethodV
                  THEN /\ e.out = Returned(MethodResult)
                       /\ e.calls = <<[args |-> i.args.info, context |-> i.args.ctx]>>
                  ELSE e.out = Returned(property) /\ e.calls = <<>>
             ELSE e.out = Returned(Undefined) /\ e.calls = <<>>

====
